---- MODULE Spec2Model ----
(***************************************************************************)
(* Model of my_model_selectors.py: the four model selectors                *)
(* (SelectorConstant, SelectorBIC, SelectorDIC, SelectorCV) and the        *)
(* abstract ModelSelector, as one state machine per select() call.         *)
(*                                                                         *)
(* The external collaborators are modelled by what the selectors observe   *)
(* of them:                                                                *)
(*   GaussianHMM(...).fit   succeeds or raises; it is deterministic for a  *)
(*                          given n (random_state is fixed), so its        *)
(*                          outcome per n is drawn once and remembered;    *)
(*   model.score            returns a log-likelihood or raises;            *)
(*   KFold().split          raises when there are fewer sequences than     *)
(*                          splits, else yields NSplits folds.             *)
(* Log-likelihoods are integers; scores that the code computes with a      *)
(* logarithm or a division are held exactly in a fixed unit (see BicScore, *)
(* DicScore, Mean).                                                        *)
(***************************************************************************)
EXTENDS Integers, Sequences, FiniteSets, TLC

\* ------------------------------------------------------------------ bounds
MaxN == 4
MaxFeat == 2
MaxL == 2
LStep == 4
MaxSeq == 3

\* Candidate state counts, feature dimensionalities, log-likelihood values.
NRange == 1..MaxN
FeatRange == 1..MaxFeat
LVals == {-(LStep * k) : k \in 0..MaxL}
SeqRange == 1..MaxSeq
\* Log-likelihoods of a held-out fold (two values keep the fold sweep small).
HeldOutVals == {0, -LStep}

\* KFold() default number of splits.
NSplits == 3

\* math.log in micro-units: LnMicro[n] = round(10^6 * ln n).
Scale == 1000000
LnMicro == <<0, 693147, 1098612, 1386294, 1609438, 1791759, 1945910,
             2079442, 2197225, 2302585>>

Strategies == {"Base", "Constant", "BIC", "DIC", "CV"}

\* A fitted model is known by its number of states; None is "no model".
None == [n_components |-> 0]
HmmModel(k) == [n_components |-> k]

VARIABLES
    strategy,           \* which selector class the object is
    min_n_components, max_n_components, n_constant,
    n_features,         \* model.n_features (columns of self.X)
    num_sequences,      \* len(self.sequences)
    pc,                 \* position inside select()
    n_component,        \* loop variable of the sweep
    model,              \* local 'model' of the current candidate
    fitted,             \* n -> outcome of GaussianHMM(n).fit (TRUE = fitted)
    train_ll,           \* n -> model.score(self.X, self.lengths)
    bic_scores, log_p_list, dic_scores, dic_nan, fold_scores, mean_scores,
    caught,             \* the outer 'except Exception' handler ran
    failed_at,          \* candidate at which the exception was raised (0: none)
    states,             \* the state count passed to the final base_model
    result,             \* what select() returned
    raised,             \* an exception left select()
    calls               \* the arguments of the base_model calls, in order

config == <<strategy, min_n_components, max_n_components, n_constant,
            n_features, num_sequences>>
lists == <<bic_scores, log_p_list, dic_scores, dic_nan, fold_scores, mean_scores>>
vars == <<config, pc, n_component, model, fitted, train_ll, lists,
          caught, failed_at, states, result, raised, calls>>

\* ----------------------------------------------------------------- helpers
\* n_components = range(min_n_components, max_n_components + 1)
RangeLen == IF max_n_components >= min_n_components
            THEN max_n_components - min_n_components + 1 ELSE 0

RECURSIVE Sum(_)
Sum(s) == IF s = <<>> THEN 0 ELSE Head(s) + Sum(Tail(s))

\* np.argmin: the 0-based index of the first smallest element.
ArgMin(s) == (CHOOSE i \in 1..Len(s) :
                /\ \A j \in 1..Len(s) : s[i] <= s[j]
                /\ \A j \in 1..(i - 1) : s[j] > s[i]) - 1

\* Variants of the index and of the chosen state count (plausible slips).
ArgMinLast(s) == (CHOOSE i \in 1..Len(s) :
                    /\ \A j \in 1..Len(s) : s[i] <= s[j]
                    /\ \A j \in (i + 1)..Len(s) : s[j] > s[i]) - 1

\* The index the selectors take from their score list: np.argmin(scores).
SelectIndex(s) == ArgMin(s)

StatesOffByOne(s) == IF s # <<>> THEN min_n_components + SelectIndex(s) + 1
                     ELSE n_constant
StatesNoFallback(s) == IF s # <<>> THEN min_n_components + SelectIndex(s)
                       ELSE min_n_components
StatesAlwaysConstant(s) == n_constant
StatesLast(s) == IF s # <<>> THEN min_n_components + Len(s) ELSE n_constant

\* states = n_components[np.argmin(scores)] if scores else self.n_constant
States(s) == IF s # <<>> THEN min_n_components + SelectIndex(s) ELSE n_constant

\* n_components[i] raises IndexError when i is past the end of the range.
IndexRaises(s) == s # <<>> /\ States(s) > max_n_components

\* base_model(k): the fit of k states succeeds or fails, as it did before.
BaseModelOutcomes(k) == IF k \in DOMAIN fitted THEN {fitted[k]} ELSE BOOLEAN

PParamsNoFeatures(k, d) == k * (k - 1)
\* p = n_component * (n_component-1) + 2 * n_component * model.n_features
PParams(k, d) == k * (k - 1) + 2 * k * d

\* bic_score = -2 * log_l + p * math.log(n_component), in micro-units
BicScore(k, l, d) == -2 * l * Scale + PParams(k, d) * LnMicro[k]

DicScoreSigned(log_p, sum_log_p, m) == (m - 1) * log_p + (sum_log_p - log_p)
\* avg_of_anti_p = -(sum_log_p - log_p) / (m - 1); dic_score = log_p + avg_of_anti_p
\* held in units of 1/(m-1), which is exact for integer log-likelihoods.
DicScore(log_p, sum_log_p, m) == (m - 1) * log_p + (-(sum_log_p - log_p))

\* np.mean(fold_scores) in units of 1/NSplits.
Mean(s) == (NSplits * Sum(s)) \div Len(s)

SplitRaisesOnEmpty(k) == k < 1
\* KFold().split(sequences) raises ValueError when n_samples < n_splits.
SplitRaises(k) == k < NSplits

\* ------------------------------------------------------------------- Init
Init ==
    /\ strategy \in Strategies
    /\ min_n_components \in NRange
    /\ max_n_components \in NRange
    /\ n_constant \in NRange
    /\ n_features \in (IF strategy = "BIC" THEN FeatRange ELSE {1})
    /\ num_sequences \in (IF strategy = "CV" THEN SeqRange ELSE {MaxSeq})
    /\ pc = "sweep"
    /\ n_component = min_n_components
    /\ model = None
    /\ fitted = <<>>
    /\ train_ll = <<>>
    /\ bic_scores = <<>>
    /\ log_p_list = <<>>
    /\ dic_scores = <<>>
    /\ dic_nan = FALSE
    /\ fold_scores = <<>>
    /\ mean_scores = <<>>
    /\ caught = FALSE
    /\ failed_at = 0
    /\ states = 0
    /\ result = None
    /\ raised = FALSE
    /\ calls = <<>>

\* The except clause of the sweep: the exception is swallowed, the scores
\* recorded so far are kept, and select() goes on to choose.
Except ==
    /\ caught' = TRUE
    /\ failed_at' = n_component
    /\ pc' = "choose"

NoExcept == UNCHANGED <<caught, failed_at>>

\* ---------------------------------------------------------------- actions
\* ModelSelector.select: raise NotImplementedError
AbstractSelect ==
    /\ strategy = "Base"
    /\ pc = "sweep"
    /\ raised' = TRUE
    /\ pc' = "done"
    /\ UNCHANGED <<config, n_component, model, fitted, train_ll, lists,
                   caught, failed_at, states, result, calls>>

\* SelectorConstant.select: return self.base_model(self.n_constant)
ConstantSelect ==
    /\ strategy = "Constant"
    /\ pc = "sweep"
    /\ \E f \in BaseModelOutcomes(n_constant) :
         /\ fitted' = (n_constant :> f) @@ fitted
         /\ result' = IF f THEN HmmModel(n_constant) ELSE None
    /\ states' = n_constant
    /\ calls' = Append(calls, n_constant)
    /\ pc' = "done"
    /\ UNCHANGED <<config, n_component, model, train_ll, lists,
                   caught, failed_at, raised>>

\* One iteration of SelectorBIC's for loop.
BICCandidate ==
    /\ strategy = "BIC"
    /\ pc = "sweep"
    /\ n_component <= max_n_components
    /\ calls' = Append(calls, n_component)
    /\ \E f \in BaseModelOutcomes(n_component) :
         /\ fitted' = (n_component :> f) @@ fitted
         /\ model' = IF f THEN HmmModel(n_component) ELSE None
         /\ IF ~f
            THEN \* None.score raises AttributeError
                 /\ Except
                 /\ UNCHANGED <<train_ll, bic_scores, n_component>>
            ELSE \/ \* model.score raises
                    /\ Except
                    /\ UNCHANGED <<train_ll, bic_scores, n_component>>
                 \/ \E log_l \in LVals :
                      /\ train_ll' = (n_component :> log_l) @@ train_ll
                      /\ bic_scores' = Append(bic_scores,
                                              BicScore(n_component, log_l, n_features))
                      /\ n_component' = n_component + 1
                      /\ NoExcept
                      /\ pc' = "sweep"
    /\ UNCHANGED <<config, log_p_list, dic_scores, dic_nan, fold_scores,
                   mean_scores, states, result, raised>>

\* One iteration of SelectorDIC's first for loop.
DICCandidate ==
    /\ strategy = "DIC"
    /\ pc = "sweep"
    /\ n_component <= max_n_components
    /\ calls' = Append(calls, n_component)
    /\ \E f \in BaseModelOutcomes(n_component) :
         /\ fitted' = (n_component :> f) @@ fitted
         /\ model' = IF f THEN HmmModel(n_component) ELSE None
         /\ IF ~f
            THEN /\ Except
                 /\ UNCHANGED <<train_ll, log_p_list, n_component>>
            ELSE \/ /\ Except
                    /\ UNCHANGED <<train_ll, log_p_list, n_component>>
                 \/ \E log_p \in LVals :
                      /\ train_ll' = (n_component :> log_p) @@ train_ll
                      /\ log_p_list' = Append(log_p_list, log_p)
                      /\ n_component' = n_component + 1
                      /\ NoExcept
                      /\ pc' = "sweep"
    /\ UNCHANGED <<config, bic_scores, dic_scores, dic_nan, fold_scores,
                   mean_scores, states, result, raised>>

\* The for loop over the candidates ends normally.
EndSweep ==
    /\ strategy \in {"BIC", "DIC", "CV"}
    /\ pc = "sweep"
    /\ n_component > max_n_components
    /\ pc' = IF strategy = "DIC" THEN "scores" ELSE "choose"
    /\ UNCHANGED <<config, n_component, model, fitted, train_ll, lists,
                   caught, failed_at, states, result, raised, calls>>

\* SelectorDIC's second loop: the DIC score of every candidate.
DICScores ==
    /\ strategy = "DIC"
    /\ pc = "scores"
    /\ LET sum_log_p == Sum(log_p_list)
           m == RangeLen
       IN  IF m = 1
           THEN \* (sum_log_p - log_p) / 0: ZeroDivisionError on Python
                \* floats, a quiet nan on numpy floats.
                \/ /\ caught' = TRUE
                   /\ failed_at' = min_n_components
                   /\ UNCHANGED <<dic_scores, dic_nan>>
                \/ /\ dic_scores' = <<0>>
                   /\ dic_nan' = TRUE
                   /\ NoExcept
           ELSE /\ dic_scores' = [i \in 1..Len(log_p_list) |->
                                    DicScore(log_p_list[i], sum_log_p, m)]
                /\ NoExcept
                /\ UNCHANGED dic_nan
    /\ pc' = "choose"
    /\ UNCHANGED <<config, n_component, model, fitted, train_ll, bic_scores,
                   log_p_list, fold_scores, mean_scores, states, result,
                   raised, calls>>

\* SelectorCV: fit the candidate and start the K-fold split.
CVFit ==
    /\ strategy = "CV"
    /\ pc = "sweep"
    /\ n_component <= max_n_components
    /\ calls' = Append(calls, n_component)
    /\ fold_scores' = <<>>
    /\ \E f \in BaseModelOutcomes(n_component) :
         /\ fitted' = (n_component :> f) @@ fitted
         /\ model' = IF f THEN HmmModel(n_component) ELSE None
    /\ IF SplitRaises(num_sequences)
       THEN Except
       ELSE /\ pc' = "fold"
            /\ NoExcept
    /\ UNCHANGED <<config, n_component, train_ll, bic_scores, log_p_list,
                   dic_scores, dic_nan, mean_scores, states, result, raised>>

\* SelectorCV: score the model on one held-out fold.
CVFold ==
    /\ strategy = "CV"
    /\ pc = "fold"
    /\ Len(fold_scores) < NSplits
    /\ IF model = None
       THEN /\ Except
            /\ UNCHANGED fold_scores
       ELSE \/ /\ Except
               /\ UNCHANGED fold_scores
            \/ \E l \in HeldOutVals :
                 /\ fold_scores' = Append(fold_scores, l)
                 /\ NoExcept
                 /\ pc' = "fold"
    /\ UNCHANGED <<config, n_component, model, fitted, train_ll, bic_scores,
                   log_p_list, dic_scores, dic_nan, mean_scores, states,
                   result, raised, calls>>

\* SelectorCV: mean_scores.append(np.mean(fold_scores))
CVMean ==
    /\ strategy = "CV"
    /\ pc = "fold"
    /\ Len(fold_scores) = NSplits
    /\ mean_scores' = Append(mean_scores, Mean(fold_scores))
    /\ n_component' = n_component + 1
    /\ pc' = "sweep"
    /\ UNCHANGED <<config, model, fitted, train_ll, bic_scores, log_p_list,
                   dic_scores, dic_nan, fold_scores, caught, failed_at,
                   states, result, raised, calls>>

\* The last two statements of the three searching selectors.
Choose(scores, nan) ==
    /\ pc = "choose"
    /\ pc' = "done"
    /\ IF ~nan /\ IndexRaises(scores)
       THEN /\ raised' = TRUE
            /\ UNCHANGED <<states, result, fitted, calls>>
       ELSE LET st == IF nan THEN min_n_components ELSE States(scores)
            IN  /\ states' = st
                /\ calls' = Append(calls, st)
                /\ \E f \in BaseModelOutcomes(st) :
                     /\ fitted' = (st :> f) @@ fitted
                     /\ result' = IF f THEN HmmModel(st) ELSE None
                /\ UNCHANGED raised
    /\ UNCHANGED <<config, n_component, model, train_ll, lists,
                   caught, failed_at>>

BICChoose == strategy = "BIC" /\ Choose(bic_scores, FALSE)
DICChoose == strategy = "DIC" /\ Choose(dic_scores, dic_nan)
CVChoose == strategy = "CV" /\ Choose(mean_scores, FALSE)

Next ==
    \/ AbstractSelect
    \/ ConstantSelect
    \/ BICCandidate
    \/ DICCandidate
    \/ EndSweep
    \/ DICScores
    \/ CVFit
    \/ CVFold
    \/ CVMean
    \/ BICChoose
    \/ DICChoose
    \/ CVChoose

Spec == Init /\ [][Next]_vars

\* ------------------------------------------------------------ properties
Done == pc = "done"
Lo == min_n_components
Hi == max_n_components

\* What base_model(k) returns, given the fits seen so far.
ModelFor(k) == IF k \in DOMAIN fitted /\ fitted[k] THEN HmmModel(k) ELSE None

\* The score list of the running selector.
Scores == IF strategy = "BIC" THEN bic_scores
          ELSE IF strategy = "DIC" THEN dic_scores ELSE mean_scores

\* i is the first position of s that holds the smallest value of s.
FirstLowest(s, i) ==
    /\ i \in 1..Len(s)
    /\ \A j \in 1..Len(s) : s[i] <= s[j]
    /\ \A j \in 1..(i - 1) : s[j] > s[i]

\* C1: select() of the four selectors never raises and returns a fitted
\* model, or else what SelectorConstant returns for n_constant (here: None,
\* because the fit of n_constant failed); only the abstract select() raises.
SelectNeverRaises ==
    Done =>
      /\ raised <=> strategy = "Base"
      /\ strategy # "Base" =>
           \/ /\ result = HmmModel(states)
              /\ states \in DOMAIN fitted
              /\ fitted[states]
           \/ /\ result = None
              /\ states = n_constant
              /\ n_constant \in DOMAIN fitted
              /\ ~fitted[n_constant]
              /\ Scores = <<>>

SelectNeverRaisesWitness ==
    /\ Done
    /\ strategy = "CV"
    /\ caught
    /\ failed_at = Lo
    /\ result = None
    /\ n_constant \in Lo..Hi

\* C2: when the first candidate of the sweep (hence every candidate that
\* raises) fails, or there is no candidate, no score is recorded and the
\* searching selectors return base_model(n_constant), as SelectorConstant.
FallbackWhenAllFail ==
    (Done /\ strategy \in {"BIC", "DIC", "CV"}
          /\ (RangeLen = 0 \/ (caught /\ failed_at = Lo))) =>
      /\ bic_scores = <<>> /\ dic_scores = <<>> /\ mean_scores = <<>>
      /\ states = n_constant
      /\ calls[Len(calls)] = n_constant
      /\ result = ModelFor(n_constant)
      /\ ~raised

FallbackWhenAllFailWitness ==
    /\ Done
    /\ strategy = "DIC"
    /\ caught
    /\ failed_at = Lo
    /\ RangeLen >= 2
    /\ n_constant \notin Lo..Hi
    /\ result = HmmModel(n_constant)

\* C3 as stated: the state count SelectorBIC passes to the final base_model
\* always lies in [min_n_components, max_n_components].
BICChosenInRange ==
    (Done /\ strategy = "BIC") => states \in Lo..Hi

\* C3 amended: it lies in the range when a score was recorded, and is
\* n_constant (in the range or not) when none was.
BICChosenInRangeOrConstant ==
    (Done /\ strategy = "BIC") =>
      IF bic_scores # <<>> THEN states \in Lo..Hi ELSE states = n_constant

BICChosenInRangeOrConstantWitness ==
    /\ Done
    /\ strategy = "BIC"
    /\ RangeLen > 0
    /\ bic_scores = <<>>
    /\ states \notin Lo..Hi

CVSingleSequenceFallsBack ==
    (Done /\ strategy = "CV" /\ num_sequences < NSplits) =>
      /\ mean_scores = <<>>
      /\ states = n_constant
      /\ result = ModelFor(n_constant)
      /\ ~raised
      /\ IF RangeLen > 0
         THEN caught /\ failed_at = Lo /\ calls = <<Lo, n_constant>>
         ELSE ~caught /\ calls = <<n_constant>>

CVSingleSequenceFallsBackWitness ==
    /\ Done
    /\ strategy = "CV"
    /\ num_sequences = 1
    /\ RangeLen > 0
    /\ caught
    /\ states = n_constant
    /\ result = HmmModel(n_constant)

DICSelectsMaximum ==
    (Done /\ strategy = "DIC" /\ ~caught /\ RangeLen >= 2) =>
      \A k \in Lo..Hi : dic_scores[states - Lo + 1] >= dic_scores[k - Lo + 1]

\* C8 as stated: with every fit, split and held-out score succeeding,
\* SelectorCV returns the model of an n that maximises the mean held-out
\* log-likelihood.
CVSelectsMaximum ==
    (Done /\ strategy = "CV" /\ ~caught /\ RangeLen >= 1) =>
      \A k \in Lo..Hi : mean_scores[states - Lo + 1] >= mean_scores[k - Lo + 1]

====
